---------------------------- MODULE Spec2Model ----------------------------
(***************************************************************************)
(* A model of pushsource's ErrataSource                                    *)
(* (src/pushsource/_impl/backend/errata_source/errata_source.py).          *)
(*                                                                         *)
(* Three specifications share this module:                                 *)
(*   SpecArch   the arch filter, _filter_rpms_by_arch, as a pure function  *)
(*   SpecRecon  one reconciliation task, _push_items_from_raw, stepped     *)
(*              through its calls in program order                         *)
(*   Spec       the producer, __iter__ / __exit__, with its fetch futures, *)
(*              its reconciliation futures, the two executors and a clock  *)
(*                                                                         *)
(* Strings the code takes apart (file names split on ".", paths split on   *)
(* "/") are sequences of tokens, so that splitting is computed and not     *)
(* assumed.  Strings the code only compares are TLA+ strings.              *)
(***************************************************************************)
EXTENDS Integers, Sequences, FiniteSets, TLC

VARIABLES
    \* ---- configuration (ErrataSource.__init__) ----
    rpm_filter_arch,         \* self._rpm_filter_arch: [is_none, arches]
    legacy_container_repos,  \* self._legacy_container_repos
    koji_source_url,         \* self._koji_source_url is set (TRUE) or not
    \* ---- SpecArch ----
    rpm_filenames,           \* the argument of _filter_rpms_by_arch
    filtered,                \* its return value
    archPc,                  \* "call" | "returned"
    \* ---- SpecRecon: one call of _push_items_from_raw ----
    raw,                     \* the raw advisory payload (the argument)
    koji,                    \* what the build resolver holds
    pc,                      \* the line the task is at
    build_idx,               \* the build the loop of line 280 is at
    erratum,                 \* the local erratum
    items,                   \* the local items / out
    container_pos,           \* the item the loop of line 207 is at
    pending_exc,             \* the exception unwinding through a with block
    task_err,                \* the exception the task ended with
    result,                  \* the list the task returned
    warnings,                \* what LOG.warning was called with
    opened,                  \* the koji sources acquired so far
    released,                \* the koji sources released so far
    trace,                   \* the calls made so far, in order
    \* ---- Spec: __iter__ and __exit__ of one source ----
    threads,                 \* max_workers of the executors
    advisory,                \* per advisory id: the payload ET holds, and koji
    iter_pc,                 \* where the generator __iter__ is
    raw_fs,                  \* per advisory id: the state of its fetch future
    fetched,                 \* the fetch futures as_completed has yielded
    push_items_fs,           \* the advisory ids submitted, in order
    task,                    \* per advisory id: the state of its push items future
    completion_order,        \* the push items futures, in the order they finished
    consumed,                \* the push items futures completed_fs has yielded
    batch_pos,               \* the next item of the batch being yielded (0: none)
    yielded,                 \* the push items yielded to the caller
    raised,                  \* the exception __iter__ raised
    elapsed,                 \* time waited against the current timeout
    idle,                    \* time since a future last finished (up to Timeout)
    pools,                   \* client, executor, koji_executor: running or shutdown
    scope                    \* "entered" | "exiting" | "exited" (__enter__/__exit__)

cfgVars == <<rpm_filter_arch, legacy_container_repos, koji_source_url>>
archVars == <<rpm_filenames, filtered, archPc>>
pipeVars == <<threads, advisory, iter_pc, raw_fs, fetched, push_items_fs, task,
              completion_order, consumed, batch_pos, yielded, raised, elapsed, idle,
              pools, scope>>
reconVars == <<raw, koji, pc, build_idx, erratum, items, container_pos, pending_exc,
               task_err, result, warnings, opened, released, trace>>

(***************************************************************************)
(* Generic helpers                                                         *)
(***************************************************************************)
Range(s) == {s[i] : i \in DOMAIN s}

SeqsUpTo(S, n) == UNION {[1..k -> S] : k \in 0..n}

RECURSIVE FlattenSeq(_)
FlattenSeq(ss) ==
    IF ss = <<>> THEN <<>> ELSE Head(ss) \o FlattenSeq(Tail(ss))

(***************************************************************************)
(* _filter_rpms_by_arch                                                    *)
(***************************************************************************)
\* The tokens file names are made of.  "." is the separator split(".") cuts
\* at; every other token stands for a run of characters without a dot.
DOT == "."
NameTokens == {"foo", DOT, "rpm", "x86_64", "X86_64"}

\* Bounds of SpecArch.
MaxLen == 5
MaxFiles == 2

\* str.split("."): the components between the dots, left to right; a string
\* without a dot is one component, and an empty string is one empty component.
RECURSIVE SplitFrom(_, _, _)
SplitFrom(s, i, cur) ==
    IF i > Len(s) THEN <<cur>>
    ELSE IF s[i] = DOT THEN <<cur>> \o SplitFrom(s, i + 1, <<>>)
    ELSE SplitFrom(s, i + 1, Append(cur, s[i]))

SplitDots(s) == SplitFrom(s, 1, <<>>)

\* conv.archstr: the normalisation of an architecture string.  Its code is
\* not part of the sources at hand; the spec calls it a case-insensitive,
\* normalising comparison, so it is modelled as lower-casing token by token.
LowerToken(t) == IF t = "X86_64" THEN "x86_64" ELSE t

ArchStr(a) == [i \in DOMAIN a |-> LowerToken(a[i])]

\* line 329: ok_arches = [conv.archstr(arch) for arch in self._rpm_filter_arch]
OkArches(arches) == {ArchStr(arches[i]) : i \in DOMAIN arches}

\* lines 332-337: the test one file name passes to be kept.
ArchKeepsNoNormalize(filename, ok_arches) ==
    LET components == SplitDots(filename)
        n == Len(components)
    IN  /\ n >= 3
        /\ components[n] = <<"rpm">>
        /\ components[n - 1] \in ok_arches

ArchKeeps(filename, ok_arches) ==
    LET components == SplitDots(filename)
        n == Len(components)
    IN  /\ n >= 3
        /\ components[n] = <<"rpm">>
        /\ ArchStr(components[n - 1]) \in ok_arches

\* lines 324-343: the loop appends the kept names to out, in order.
RECURSIVE FilterLoop(_, _)
FilterLoop(names, ok_arches) ==
    IF names = <<>> THEN <<>>
    ELSE (IF ArchKeeps(Head(names), ok_arches) THEN <<Head(names)>> ELSE <<>>)
            \o FilterLoop(Tail(names), ok_arches)

FilterRpmsByArch(filter, names) ==
    IF filter.is_none THEN names
    ELSE FilterLoop(names, OkArches(filter.arches))

(***************************************************************************)
(* Push items, dictionaries and errors                                     *)
(***************************************************************************)
\* A Python dict, in insertion order: a sequence of [key, val] with distinct
\* keys.
DictKeys(d) == [i \in DOMAIN d |-> d[i].key]

DictHas(d, k) == \E i \in DOMAIN d : d[i].key = k

DictGet(d, k, default) ==
    IF DictHas(d, k) THEN d[CHOOSE i \in DOMAIN d : d[i].key = k].val ELSE default

DictPop(d, k) == SelectSeq(d, LAMBDA e : e.key # k)

\* d[k] = v: replaces the value in place, or appends the key.
DictSet(d, k, v) ==
    IF DictHas(d, k)
    THEN [i \in DOMAIN d |-> IF d[i].key = k THEN [key |-> k, val |-> v] ELSE d[i]]
    ELSE Append(d, [key |-> k, val |-> v])

\* sorted(set): the strings the model sorts, in Python's string order.
StringOrder ==
    << "/ftp/m", "/ftp/r", "b1", "b2", "k1", "k2",
       "modulemd.src.txt", "modulemd.x86_64.txt",
       "ns/a:1", "ns/a:2", "ns/b:1", "ns/b:2", "old-a:1", "old-a:2", "old-b:1",
       "old-b:2", "repoA", "repoB", "repoE", "repoM" >>

Sorted(S) == SelectSeq(StringOrder, LAMBDA x : x \in S)

\* The push item model types (pushsource model): one record type, the class
\* in kind.  "" stands for None in build, origin, module_build,
\* dest_signing_key and the checksums.
PushItem(kind, name, build, src, state) ==
    [kind |-> kind, name |-> name, build |-> build, src |-> src, state |-> state,
     dest |-> <<>>, origin |-> "", module_build |-> "", dest_signing_key |-> "",
     sha256sum |-> "", md5sum |-> ""]

\* The exceptions the code raises are all ValueError; what tells them apart
\* is the message, kept as the place that raises and the names it formats.
NoError == [what |-> "none", about |-> <<>>]
ValueError(what, about) == [what |-> what, about |-> about]

\* The spec's error taxonomy (spec section 7 and 4.3) of those messages.
ErrorKind(err) ==
    CASE err.what \in {"no_koji_source", "multiple_signing_keys"} -> "ConfigError"
      [] err.what \in {"rpm_not_found", "missing_modules",
                       "missing_modulemd_sources", "no_repositories"} -> "MissingArtifact"
      [] OTHER -> "none"

SLASH == "/"
SENTINEL == <<"modulemd.src.txt">>

\* os.path.basename: what follows the last "/".
Basename(path) ==
    LET slashes == {i \in DOMAIN path : path[i] = SLASH}
        last == IF slashes = {} THEN 0
                ELSE CHOOSE i \in slashes : \A j \in slashes : j <= i
    IN  SubSeq(path, last + 1, Len(path))

(***************************************************************************)
(* The build resolver (koji source), as the code sees it                   *)
(***************************************************************************)
\* What the koji source yields for rpm=names: one RpmPushItem per requested
\* name, in the order requested, NOTFOUND for an absent one.
KojiRpmItems(koji_src, names) ==
    [i \in DOMAIN names |->
        LET r == DictGet(koji_src.rpms, names[i], [state |-> "NOTFOUND", build |-> ""])
        IN  PushItem("Rpm", names[i], r.build, <<>>, r.state)]

\* What it yields for module_build=[nvr] with a file name filter: the items
\* of that build whose file name is one of the requested ones.
KojiModuleItems(koji_src, build_nvr, module_filenames) ==
    SelectSeq(DictGet(koji_src.modules, build_nvr, <<>>),
              LAMBDA it : Basename(it.src) \in Range(module_filenames))

\* What it yields for container_build=builds: the items of those builds.
KojiContainerItems(koji_src, builds) ==
    SelectSeq(koji_src.containers, LAMBDA it : it.build \in Range(builds))

(***************************************************************************)
(* _rpm_push_items_from_build                                              *)
(***************************************************************************)
\* ".module" in push_item.build: the build names of the model that hold it.
ContainsDotModule(build) == build \in {"rpmbuild.module+el8"}

\* The loop of lines 358-396: the first NOTFOUND item raises.
RECURSIVE RpmLoop(_, _, _, _, _)
RpmLoop(got, build_nvr, build_info, origin, out) ==
    IF got = <<>> THEN [err |-> NoError, items |-> out]
    ELSE LET push_item == Head(got)
         IN  IF push_item.state = "NOTFOUND"
             THEN [err |-> ValueError("rpm_not_found", push_item.name), items |-> <<>>]
             ELSE RpmLoop(Tail(got), build_nvr, build_info, origin,
                     Append(out,
                        [push_item EXCEPT
                            !.sha256sum = DictGet(build_info.sha256, push_item.name, ""),
                            !.md5sum = DictGet(build_info.md5, push_item.name, ""),
                            !.dest = DictGet(build_info.rpms, push_item.name, <<>>),
                            !.origin = origin,
                            !.module_build =
                                IF push_item.build # build_nvr
                                    /\ ContainsDotModule(push_item.build)
                                THEN build_nvr ELSE ""]))

RpmPushItemsFromBuild(cfg, origin, build_nvr, build_info, koji_src) ==
    LET wanted == FilterRpmsByArch(cfg.rpm_filter_arch, DictKeys(build_info.rpms))
    IN  IF ~cfg.koji_source_url
        THEN [err |-> ValueError("no_koji_source", <<>>), items |-> <<>>]
        ELSE RpmLoop(KojiRpmItems(koji_src, wanted), build_nvr, build_info, origin, <<>>)

(***************************************************************************)
(* _module_push_items_from_build                                           *)
(***************************************************************************)
\* The loop of lines 304-312: modules.pop(basename, []) gives the item its
\* destinations and takes the name out of the dict.
RECURSIVE ModuleLoop(_, _, _, _)
ModuleLoop(got, modules, origin, out) ==
    IF got = <<>> THEN [modules |-> modules, items |-> out]
    ELSE LET push_item == Head(got)
             basename == Basename(push_item.src)
             dest == DictGet(modules, basename, <<>>)
         IN  ModuleLoop(Tail(got), DictPop(modules, basename), origin,
                        Append(out, [push_item EXCEPT !.dest = dest, !.origin = origin]))

\* The sentinel counted among the declared names: the check of line 315 then
\* reports it as missing whenever the resolver does not return it.
MissingModulesWithSentinel(modules_left, got) ==
    Sorted({n[1] : n \in Range(DictKeys(modules_left))}
            \cup (IF \E i \in DOMAIN got : Basename(got[i].src) = SENTINEL
                  THEN {} ELSE {SENTINEL[1]}))

\* line 315: sorted(modules.keys()), the names never popped.
MissingModules(modules_left, got) ==
    Sorted({n[1] : n \in Range(DictKeys(modules_left))})

ModulePushItemsFromBuild(cfg, origin, build_nvr, build_info, koji_src) ==
    LET modules == build_info.modules
        module_filenames == Append(DictKeys(modules), SENTINEL)
    IN  IF ~cfg.koji_source_url
        THEN [err |-> ValueError("no_koji_source", <<>>), items |-> <<>>]
        ELSE LET got == KojiModuleItems(koji_src, build_nvr, module_filenames)
                 looped == ModuleLoop(got, modules, origin, <<>>)
                 missing_modules == MissingModules(looped.modules, got)
             IN  IF missing_modules # <<>>
                 THEN [err |-> ValueError("missing_modules",
                                          <<build_nvr>> \o missing_modules),
                       items |-> <<>>]
                 ELSE [err |-> NoError, items |-> looped.items]

(***************************************************************************)
(* _push_items_from_rpms                                                   *)
(***************************************************************************)
\* lines 280-284, one build: its RPM items, then its module items.
PushItemsFromBuild(cfg, origin, build_nvr, build_info, koji_src) ==
    LET r == RpmPushItemsFromBuild(cfg, origin, build_nvr, build_info, koji_src)
        m == ModulePushItemsFromBuild(cfg, origin, build_nvr, build_info, koji_src)
    IN  IF r.err # NoError THEN r
        ELSE IF m.err # NoError THEN m
        ELSE [err |-> NoError, items |-> r.items \o m.items]

RECURSIVE PushItemsFromRpmsLoop(_, _, _, _, _)
PushItemsFromRpmsLoop(cfg, origin, rpm_list, koji_src, out) ==
    IF rpm_list = <<>> THEN [err |-> NoError, items |-> out]
    ELSE LET b == PushItemsFromBuild(cfg, origin, Head(rpm_list).key,
                                     Head(rpm_list).val, koji_src)
         IN  IF b.err # NoError THEN b
             ELSE PushItemsFromRpmsLoop(cfg, origin, Tail(rpm_list), koji_src, out \o b.items)

PushItemsFromRpms(cfg, origin, rpm_list, koji_src) ==
    PushItemsFromRpmsLoop(cfg, origin, rpm_list, koji_src, <<>>)

(***************************************************************************)
(* _push_items_from_raw, lines 155-165: the erratum and its destinations   *)
(***************************************************************************)
\* ErratumPushItem._from_data(raw.advisory_cdn_metadata)
ErratumFromData(metadata) ==
    [PushItem("Erratum", <<metadata.name>>, "", <<>>, "PENDING")
        EXCEPT !.dest = metadata.dest]

ItemDests(its) == UNION {Range(its[i].dest) : i \in DOMAIN its}

\* The destinations of the items alone, the erratum's own ones left out.
ErratumDestItemsOnly(adv, its) ==
    [adv EXCEPT !.dest = Sorted(ItemDests(its))]

\* lines 161-165
ErratumWithDest(adv, its) ==
    [adv EXCEPT !.dest = Sorted(Range(adv.dest) \cup ItemDests(its))]

(***************************************************************************)
(* _add_ftp_paths                                                          *)
(***************************************************************************)
\* lines 429-431: rpm_to_paths[rpm_name] = paths, over the builds in order.
RECURSIVE DictUpdate(_, _)
DictUpdate(d, entries) ==
    IF entries = <<>> THEN d
    ELSE DictUpdate(DictSet(d, Head(entries).key, Head(entries).val), Tail(entries))

RECURSIVE RpmToPaths(_, _)
RpmToPaths(ftp_paths, acc) ==
    IF ftp_paths = <<>> THEN acc
    ELSE RpmToPaths(Tail(ftp_paths), DictUpdate(acc, Head(ftp_paths).val.rpms))

\* lines 433-434
BuildToModulePaths(ftp_paths) ==
    [i \in DOMAIN ftp_paths |->
        [key |-> ftp_paths[i].key, val |-> ftp_paths[i].val.modules]]

\* lines 435-436
BuildsNeedModules(ftp_paths) ==
    {ftp_paths[i].key : i \in {j \in DOMAIN ftp_paths : ftp_paths[j].val.modules # <<>>}}

\* A modulemd source is kept also when it has no destinations.
FtpItemKeepAll(item, rpm_to_paths, build_to_module_paths) ==
    IF item.kind = "Rpm"
    THEN [keep |-> TRUE, have |-> FALSE,
          item |-> [item EXCEPT !.dest = item.dest \o DictGet(rpm_to_paths, item.name, <<>>)]]
    ELSE IF item.kind = "ModuleMdSource"
    THEN LET paths == DictGet(build_to_module_paths, item.build, <<>>)
         IN  [keep |-> TRUE, have |-> paths # <<>>,
              item |-> [item EXCEPT !.dest = item.dest \o paths]]
    ELSE [keep |-> TRUE, have |-> FALSE, item |-> item]

\* lines 439-465, one item: the item as it goes on (or keep = FALSE), and
\* whether its build now has modules.
FtpItem(item, rpm_to_paths, build_to_module_paths) ==
    IF item.kind = "Rpm"
    THEN [keep |-> TRUE, have |-> FALSE,
          item |-> [item EXCEPT !.dest = item.dest \o DictGet(rpm_to_paths, item.name, <<>>)]]
    ELSE IF item.kind = "ModuleMdSource"
    THEN LET paths == DictGet(build_to_module_paths, item.build, <<>>)
             dest == item.dest \o paths
         IN  [keep |-> dest # <<>>, have |-> paths # <<>>,
              item |-> [item EXCEPT !.dest = dest]]
    ELSE [keep |-> TRUE, have |-> FALSE, item |-> item]

FtpLoopOut(its, rpm_to_paths, build_to_module_paths) ==
    LET done == [i \in DOMAIN its |->
                    FtpItem(its[i], rpm_to_paths, build_to_module_paths)]
        kept == SelectSeq(done, LAMBDA d : d.keep)
    IN  [i \in DOMAIN kept |-> kept[i].item]

BuildsHaveModules(its, rpm_to_paths, build_to_module_paths) ==
    {its[i].build : i \in {j \in DOMAIN its :
        FtpItem(its[j], rpm_to_paths, build_to_module_paths).have}}

\* line 476: the manifest declares modules for the build.
ManifestHasModules(file_list, nvr) ==
    DictGet(file_list, nvr, [modules |-> <<>>]).modules # <<>>

\* lines 467-485 with every missing build counted as missing from koji.
BuildsMissingKojiAll(file_list, missing) == missing

\* lines 467-485: the builds that need modules and have none, split in two.
BuildsMissingKoji(file_list, missing) ==
    SelectSeq(missing, LAMBDA nvr : ManifestHasModules(file_list, nvr))

BuildsMissingEt(file_list, missing) ==
    SelectSeq(missing, LAMBDA nvr : ~ManifestHasModules(file_list, nvr))

AddFtpPaths(its, payload) ==
    LET rpm_to_paths == RpmToPaths(payload.ftp_paths, <<>>)
        build_to_module_paths == BuildToModulePaths(payload.ftp_paths)
        out == FtpLoopOut(its, rpm_to_paths, build_to_module_paths)
        builds_missing_modules ==
            Sorted(BuildsNeedModules(payload.ftp_paths)
                    \ BuildsHaveModules(its, rpm_to_paths, build_to_module_paths))
        builds_missing_et == BuildsMissingEt(payload.advisory_cdn_file_list, builds_missing_modules)
        builds_missing_koji == BuildsMissingKoji(payload.advisory_cdn_file_list, builds_missing_modules)
        warned == IF builds_missing_et # <<>> THEN <<builds_missing_et>> ELSE <<>>
    IN  IF builds_missing_koji # <<>>
        THEN [err |-> ValueError("missing_modulemd_sources", builds_missing_koji),
              items |-> <<>>, warnings |-> warned]
        ELSE [err |-> NoError, items |-> out, warnings |-> warned]

(***************************************************************************)
(* _enrich_container_push_item                                             *)
(***************************************************************************)
\* "%s:%s" % (repo_id, tag)
RepoTag(repo_id, tag) == repo_id \o ":" \o tag

\* lines 232-238: the repositories of the build, in the namespace chosen.
ContainerRepos(legacy, docker_file_list, build) ==
    LET target == DictGet(docker_file_list, build,
                          [external_repos |-> <<>>, repos |-> <<>>])
    IN  IF legacy THEN target.repos ELSE target.external_repos

\* lines 242-244
ContainerDest(repos) ==
    Sorted(UNION {{RepoTag(repos[i].key, t) : t \in Range(repos[i].val.tags)} :
                    i \in DOMAIN repos})

\* lines 246-248
ContainerSigKeys(repos) ==
    {repos[i].val.container_full_sig_key : i \in DOMAIN repos} \ {""}

\* The signing keys checked before the destinations.
EnrichKeysFirst(legacy, docker_file_list, item) ==
    LET repos == ContainerRepos(legacy, docker_file_list, item.build)
        dest == ContainerDest(repos)
        sig_keys == ContainerSigKeys(repos)
    IN  IF Cardinality(sig_keys) > 1
        THEN [err |-> ValueError("multiple_signing_keys",
                                 Sorted(sig_keys) \o <<item.build>>), item |-> item]
        ELSE IF dest = <<>>
        THEN [err |-> ValueError("no_repositories", <<item.build>>), item |-> item]
        ELSE [err |-> NoError,
              item |-> [item EXCEPT !.dest = dest,
                            !.dest_signing_key =
                                IF sig_keys = {} THEN "" ELSE CHOOSE k \in sig_keys : TRUE]]

\* lines 229-275
EnrichContainerPushItem(legacy, docker_file_list, item) ==
    LET repos == ContainerRepos(legacy, docker_file_list, item.build)
        dest == ContainerDest(repos)
        sig_keys == ContainerSigKeys(repos)
    IN  IF dest = <<>>
        THEN [err |-> ValueError("no_repositories", <<item.build>>), item |-> item]
        ELSE IF Cardinality(sig_keys) > 1
        THEN [err |-> ValueError("multiple_signing_keys",
                                 Sorted(sig_keys) \o <<item.build>>), item |-> item]
        ELSE [err |-> NoError,
              item |-> [item EXCEPT !.dest = dest,
                            !.dest_signing_key =
                                IF sig_keys = {} THEN "" ELSE CHOOSE k \in sig_keys : TRUE]]

(***************************************************************************)
(* _push_items_from_container_manifests                                    *)
(***************************************************************************)
\* lines 207-225, one item of the koji source: skip it, fail, or append it.
ContainerLoopBody(legacy, origin, docker_file_list, item) ==
    IF item.kind = "ContainerImage"
    THEN LET e == EnrichContainerPushItem(legacy, docker_file_list, item)
         IN  [err |-> e.err, keep |-> e.err = NoError,
              item |-> [e.item EXCEPT !.origin = origin]]
    ELSE IF item.kind = "OperatorManifest"
    THEN [err |-> NoError, keep |-> TRUE, item |-> [item EXCEPT !.origin = origin]]
    ELSE [err |-> NoError, keep |-> FALSE, item |-> item]

RECURSIVE ContainerLoop(_, _, _, _, _)
ContainerLoop(legacy, origin, docker_file_list, got, out) ==
    IF got = <<>> THEN [err |-> NoError, items |-> out]
    ELSE LET b == ContainerLoopBody(legacy, origin, docker_file_list, Head(got))
         IN  IF b.err # NoError THEN [err |-> b.err, items |-> <<>>]
             ELSE ContainerLoop(legacy, origin, docker_file_list, Tail(got),
                                IF b.keep THEN Append(out, b.item) ELSE out)

PushItemsFromContainerManifests(cfg, origin, docker_file_list, koji_src) ==
    IF docker_file_list = <<>> THEN [err |-> NoError, items |-> <<>>]
    ELSE IF ~cfg.koji_source_url
    THEN [err |-> ValueError("no_koji_source", <<>>), items |-> <<>>]
    ELSE ContainerLoop(cfg.legacy_container_repos, origin, docker_file_list,
                       KojiContainerItems(koji_src, DictKeys(docker_file_list)), <<>>)

(***************************************************************************)
(* _push_items_from_raw                                                    *)
(***************************************************************************)
\* line 174 with the container items put before the RPM and module items.
BatchContainersFirst(adv, its, container_items) ==
    <<adv>> \o container_items \o its

\* lines 170-174: [erratum] + items + container items
Batch(adv, its, container_items) ==
    <<adv>> \o its \o container_items

PushItemsFromRaw(cfg, payload, koji_src) ==
    LET erratum0 == ErratumFromData(payload.advisory_cdn_metadata)
        origin == payload.advisory_cdn_metadata.name
        rpms == PushItemsFromRpms(cfg, origin, payload.advisory_cdn_file_list, koji_src)
        adv == ErratumWithDest(erratum0, rpms.items)
        ftp == AddFtpPaths(rpms.items, payload)
        cont == PushItemsFromContainerManifests(cfg, origin,
                    payload.advisory_cdn_docker_file_list, koji_src)
    IN  IF rpms.err # NoError THEN [err |-> rpms.err, items |-> <<>>]
        ELSE IF ftp.err # NoError THEN [err |-> ftp.err, items |-> <<>>]
        ELSE IF cont.err # NoError THEN [err |-> cont.err, items |-> <<>>]
        ELSE [err |-> NoError, items |-> Batch(adv, ftp.items, cont.items)]

(***************************************************************************)
(* Inputs of the arch filter                                               *)
(***************************************************************************)
NoArchFilter == [is_none |-> TRUE, arches |-> <<>>]
ArchNames == {<<"x86_64">>, <<"X86_64">>, <<"foo">>}
ArchFilters ==
    {NoArchFilter} \cup {[is_none |-> FALSE, arches |-> a] : a \in SeqsUpTo(ArchNames, 1)}

FileNames == SeqsUpTo(NameTokens, MaxLen)

\* File names for the lists of several names (rpms.keys(): distinct names).
SampleFiles ==
    { <<"foo", DOT, "x86_64", DOT, "rpm">>,
      <<"foo", DOT, "X86_64", DOT, "rpm">>,
      <<"foo", DOT, "foo", DOT, "rpm">>,
      <<"x86_64", DOT, "rpm">>,
      <<"foo", DOT, "x86_64", DOT, "foo">>,
      <<"foo", DOT, "foo", "x86_64", DOT, "rpm">> }

IsInjective(s) == \A i, j \in DOMAIN s : s[i] = s[j] => i = j

FileLists ==
    {<<f>> : f \in FileNames}
        \cup {l \in SeqsUpTo(SampleFiles, MaxFiles) : IsInjective(l)}

ArchIdle ==
    /\ rpm_filenames = <<>>
    /\ filtered = <<>>
    /\ archPc = "idle"

(***************************************************************************)
(* Inputs of a reconciliation: payloads and resolver contents              *)
(***************************************************************************)
MD == <<"modulemd.x86_64.txt">>
ModuleNames == <<MD, SENTINEL>>
Builds == <<"b1", "b2">>

RpmName(nvr) ==
    IF nvr = "b1" THEN <<"b1", DOT, "x86_64", DOT, "rpm">>
    ELSE <<"b2", DOT, "foo", DOT, "rpm">>

ModuleDest(name) == IF name = MD THEN <<"repoM">> ELSE <<"repoB">>

ModuleSrc(name) == <<SLASH, "koji", SLASH>> \o name

ModuleItem(nvr, name) ==
    PushItem(IF name = SENTINEL THEN "ModuleMdSource" ELSE "ModuleMd",
             <<>>, nvr, ModuleSrc(name), "PENDING")

\* One build of an advisory, as a case: what the manifest declares for it,
\* what the resolver holds for it and what the FTP paths say about it.
BuildCase(nvr, in_manifest, rpm, rpm_dest, rpm_koji, rpm_ftp, declared, returned, ftp) ==
    [nvr |-> nvr, in_manifest |-> in_manifest, rpm |-> rpm, rpm_dest |-> rpm_dest,
     rpm_koji |-> rpm_koji, rpm_ftp |-> rpm_ftp, declared |-> declared,
     returned |-> returned, ftp |-> ftp]

NoBuild(nvr) == BuildCase(nvr, FALSE, FALSE, <<>>, "PRESENT", FALSE, {}, {}, "absent")

ManifestOf(c) ==
    IF ~c.in_manifest THEN <<>>
    ELSE << [key |-> c.nvr,
             val |-> [rpms |-> IF c.rpm
                               THEN <<[key |-> RpmName(c.nvr), val |-> c.rpm_dest]>>
                               ELSE <<>>,
                      modules |->
                          LET names == SelectSeq(ModuleNames, LAMBDA n : n \in c.declared)
                          IN  [i \in DOMAIN names |->
                                  [key |-> names[i], val |-> ModuleDest(names[i])]],
                      sig_key |-> "k1",
                      sha256 |-> IF c.rpm THEN <<[key |-> RpmName(c.nvr), val |-> "abc"]>>
                                 ELSE <<>>,
                      md5 |-> <<>>]] >>

FtpOf(c) ==
    IF c.ftp = "absent" /\ ~(c.rpm /\ c.rpm_ftp) THEN <<>>
    ELSE << [key |-> c.nvr,
             val |-> [rpms |-> IF c.rpm /\ c.rpm_ftp
                               THEN <<[key |-> RpmName(c.nvr), val |-> <<"/ftp/r">>]>>
                               ELSE <<>>,
                      modules |-> IF c.ftp = "paths" THEN <<"/ftp/m">> ELSE <<>>]] >>

KojiRpmsOf(c) ==
    IF c.rpm /\ c.rpm_koji # "NOTFOUND"
    THEN << [key |-> RpmName(c.nvr),
             val |-> [state |-> "PRESENT",
                      build |-> IF c.rpm_koji = "MODULE" THEN "rpmbuild.module+el8"
                                ELSE c.nvr]] >>
    ELSE <<>>

KojiModulesOf(c) ==
    LET names == SelectSeq(ModuleNames, LAMBDA n : n \in c.returned)
    IN  << [key |-> c.nvr, val |-> [i \in DOMAIN names |-> ModuleItem(c.nvr, names[i])]] >>

\* The container builds of an advisory: the manifest and the resolver's items.
Repo(repo_id, tags, sig_key) ==
    [key |-> repo_id, val |-> [tags |-> tags, container_full_sig_key |-> sig_key]]

ExternalRepoMaps ==
    { a \o b :
        a \in {<<Repo("ns/a", t, k)>> : t \in {<<>>, <<"2", "1">>}, k \in {"", "k1"}},
        b \in {<<>>} \cup {<<Repo("ns/b", t, k)>> :
                                t \in {<<>>, <<"1">>}, k \in {"", "k1", "k2"}} }

LegacyRepoMaps ==
    { <<>>,
      <<Repo("old-a", <<"1">>, "k1")>>,
      <<Repo("old-a", <<"1">>, "k1"), Repo("old-b", <<>>, "k2")>>,
      <<Repo("old-a", <<>>, "k1"), Repo("old-b", <<>>, "k2")>> }

ContainerItem(kind) == PushItem(kind, <<"img">>, "c1", <<>>, "PENDING")

ContainerYields ==
    { <<>>,
      <<ContainerItem("ContainerImage")>>,
      <<ContainerItem("OperatorManifest")>>,
      <<ContainerItem("OperatorManifest"), ContainerItem("ContainerImage")>>,
      <<ContainerItem("Other"), ContainerItem("ContainerImage"),
        ContainerItem("OperatorManifest")>> }

DockerCase(external_repos, repos, yields) ==
    [docker |-> <<[key |-> "c1",
                   val |-> [external_repos |-> external_repos, repos |-> repos]]>>,
     yields |-> yields]

NoDocker == [docker |-> <<>>, yields |-> <<>>]

\* The payload and the resolver made of an erratum destination list, the
\* cases of the two builds and the container case.
Payload(name, erratum_dest, c1, c2, d) ==
    [raw |-> [advisory_cdn_metadata |-> [name |-> name, dest |-> erratum_dest],
              advisory_cdn_file_list |-> ManifestOf(c1) \o ManifestOf(c2),
              advisory_cdn_docker_file_list |-> d.docker,
              ftp_paths |-> FtpOf(c1) \o FtpOf(c2)],
     koji |-> [rpms |-> KojiRpmsOf(c1) \o KojiRpmsOf(c2),
               modules |-> KojiModulesOf(c1) \o KojiModulesOf(c2),
               containers |-> d.yields]]

Config(filter, legacy, url) ==
    [rpm_filter_arch |-> filter, legacy_container_repos |-> legacy,
     koji_source_url |-> url]

\* ---- the families of inputs ----
FtpChoices == {"absent", "empty", "paths"}

\* Modules: what the manifest declares against what the resolver holds.
ModuleCases(nvr) ==
    {BuildCase(nvr, FALSE, FALSE, <<>>, "PRESENT", FALSE, {}, {}, f) : f \in FtpChoices}
    \cup {BuildCase(nvr, TRUE, FALSE, <<>>, "PRESENT", FALSE, d, r, f) :
            d \in SUBSET Range(ModuleNames), r \in SUBSET Range(ModuleNames),
            f \in FtpChoices}

\* RPMs: declared or not, with or without destinations and FTP paths, found
\* or not.
RpmCases(nvr) ==
    {BuildCase(nvr, TRUE, FALSE, <<>>, "PRESENT", FALSE, {}, {}, "absent")}
    \cup {BuildCase(nvr, TRUE, TRUE, d, k, f, {}, {}, "absent") :
            d \in {<<>>, <<"repoA">>}, k \in {"PRESENT", "MODULE", "NOTFOUND"},
            f \in BOOLEAN}

\* A few builds with RPMs and modules together.
MixedCases(nvr) ==
    { NoBuild(nvr),
      BuildCase(nvr, TRUE, TRUE, <<"repoA">>, "PRESENT", TRUE, {MD}, {MD, SENTINEL}, "paths"),
      BuildCase(nvr, TRUE, TRUE, <<"repoA">>, "NOTFOUND", FALSE, {MD}, {}, "paths"),
      BuildCase(nvr, TRUE, TRUE, <<>>, "PRESENT", FALSE, {MD}, {MD}, "paths"),
      BuildCase(nvr, TRUE, TRUE, <<"repoA">>, "PRESENT", FALSE, {}, {SENTINEL}, "paths"),
      BuildCase(nvr, TRUE, FALSE, <<>>, "PRESENT", FALSE, {MD, SENTINEL}, {MD}, "absent") }

DockerCases ==
    {DockerCase(e, l, y) : e \in ExternalRepoMaps, l \in LegacyRepoMaps,
                           y \in ContainerYields}

MixedDockerCases ==
    { NoDocker,
      DockerCase(<<Repo("ns/a", <<"1">>, "k1")>>, <<>>, <<ContainerItem("ContainerImage")>>),
      DockerCase(<<Repo("ns/a", <<>>, "k1")>>, <<>>, <<ContainerItem("ContainerImage")>>) }

DefaultConfig == Config(NoArchFilter, FALSE, TRUE)
X86Filter == [is_none |-> FALSE, arches |-> <<<<"X86_64">>>>]

ReconInputs ==
    \* modules and the FTP-path merge
    {[cfg |-> DefaultConfig, p |-> Payload("RHSA-1", <<>>, c1, c2, NoDocker)] :
        c1 \in ModuleCases("b1"), c2 \in ModuleCases("b2")}
    \* RPMs, the arch filter and the erratum's destinations
    \cup {[cfg |-> Config(f, FALSE, TRUE), p |-> Payload("RHSA-1", e, c1, c2, NoDocker)] :
        f \in {NoArchFilter, X86Filter}, e \in {<<>>, <<"repoE">>},
        c1 \in RpmCases("b1"), c2 \in RpmCases("b2") \cup {NoBuild("b2")}}
    \* containers
    \cup {[cfg |-> Config(NoArchFilter, l, TRUE), p |-> Payload("RHSA-1", <<>>, c1, NoBuild("b2"), d)] :
        l \in BOOLEAN, d \in DockerCases,
        c1 \in {NoBuild("b1"),
                BuildCase("b1", TRUE, TRUE, <<"repoA">>, "PRESENT", FALSE, {}, {}, "absent")}}
    \* no koji source configured
    \cup {[cfg |-> Config(NoArchFilter, FALSE, FALSE), p |-> Payload("RHSA-1", <<>>, c1, NoBuild("b2"), d)] :
        c1 \in MixedCases("b1"), d \in MixedDockerCases}
    \* everything together
    \cup {[cfg |-> DefaultConfig, p |-> Payload("RHSA-1", <<>>, c1, c2, d)] :
        c1 \in MixedCases("b1"), c2 \in MixedCases("b2"), d \in MixedDockerCases}

(***************************************************************************)
(* Inputs of the producer: the advisories of a source                      *)
(***************************************************************************)
\* Bounds of Spec.
NumAdvisories == 2
MaxThreads == 2
Timeout == 2

AdvisoryIds == 1..NumAdvisories

AdvisoryNames == <<"RHSA-1", "RHSA-2", "RHSA-3", "RHSA-4">>

FoundRpm(nvr) == BuildCase(nvr, TRUE, TRUE, <<"repoA">>, "PRESENT", FALSE, {}, {}, "absent")

\* What an advisory may be: RPMs of two builds and a container image with an
\* operator manifest; nothing but the erratum; an RPM koji does not have.
AdvisoryPayloads(name) ==
    { Payload(name, <<>>, FoundRpm("b1"), FoundRpm("b2"),
              DockerCase(<<Repo("ns/a", <<"1">>, "k1")>>, <<>>,
                         <<ContainerItem("OperatorManifest"),
                           ContainerItem("ContainerImage")>>)),
      Payload(name, <<>>, NoBuild("b1"), NoBuild("b2"), NoDocker),
      Payload(name, <<>>,
              BuildCase("b1", TRUE, TRUE, <<"repoA">>, "NOTFOUND", FALSE, {}, {}, "absent"),
              NoBuild("b2"), NoDocker) }

PipeIdle ==
    /\ threads = 0
    /\ advisory = <<>>
    /\ iter_pc = "idle"
    /\ raw_fs = <<>>
    /\ fetched = {}
    /\ push_items_fs = <<>>
    /\ task = <<>>
    /\ completion_order = <<>>
    /\ consumed = <<>>
    /\ batch_pos = 0
    /\ yielded = <<>>
    /\ raised = NoError
    /\ elapsed = 0
    /\ idle = 0
    /\ pools = [client |-> "idle", executor |-> "idle", koji_executor |-> "idle"]
    /\ scope = "idle"

(***************************************************************************)
(* SpecRecon: _push_items_from_raw, call by call                           *)
(***************************************************************************)
Cfg == Config(rpm_filter_arch, legacy_container_repos, koji_source_url)

Origin == raw.advisory_cdn_metadata.name

NoPayload == Payload("", <<>>, NoBuild("b1"), NoBuild("b2"), NoDocker)

ReconIdle ==
    /\ raw = NoPayload.raw
    /\ koji = NoPayload.koji
    /\ pc = "idle"
    /\ build_idx = 0
    /\ erratum = PushItem("Erratum", <<>>, "", <<>>, "PENDING")
    /\ items = <<>>
    /\ container_pos = 0
    /\ pending_exc = NoError
    /\ task_err = NoError
    /\ result = <<>>
    /\ warnings = <<>>
    /\ opened = {}
    /\ released = {}
    /\ trace = <<>>

ReconInit ==
    /\ ArchIdle
    /\ PipeIdle
    /\ \E in \in ReconInputs :
        /\ rpm_filter_arch = in.cfg.rpm_filter_arch
        /\ legacy_container_repos = in.cfg.legacy_container_repos
        /\ koji_source_url = in.cfg.koji_source_url
        /\ raw = in.p.raw
        /\ koji = in.p.koji
    /\ pc = "from_data"
    /\ build_idx = 0
    /\ erratum = PushItem("Erratum", <<>>, "", <<>>, "PENDING")
    /\ items = <<>>
    /\ container_pos = 0
    /\ pending_exc = NoError
    /\ task_err = NoError
    /\ result = <<>>
    /\ warnings = <<>>
    /\ opened = {}
    /\ released = {}
    /\ trace = <<>>

Source(selector, nvr) == [selector |-> selector, nvr |-> nvr]
Call(op, nvr) == [op |-> op, nvr |-> nvr]

CurrentBuild == raw.advisory_cdn_file_list[build_idx]

\* The task ends with an exception.
Raise(err) ==
    /\ pc' = "failed"
    /\ task_err' = err

\* line 155
FromData ==
    /\ pc = "from_data"
    /\ erratum' = ErratumFromData(raw.advisory_cdn_metadata)
    /\ trace' = Append(trace, Call("from_data", ""))
    /\ IF raw.advisory_cdn_file_list = <<>>
       THEN pc' = "erratum_dest" /\ UNCHANGED build_idx
       ELSE pc' = "rpms" /\ build_idx' = 1
    /\ UNCHANGED <<cfgVars, archVars, pipeVars, raw, koji, items, container_pos, pending_exc,
                   task_err, result, warnings, opened, released>>

\* line 281: _rpm_push_items_from_build.  The koji source of line 354 is
\* acquired and iterated; nothing in lines 345-398 releases it.
CallRpmPushItemsFromBuild ==
    /\ pc = "rpms"
    /\ LET r == RpmPushItemsFromBuild(Cfg, Origin, CurrentBuild.key, CurrentBuild.val, koji)
       IN  /\ opened' = IF koji_source_url
                        THEN opened \cup {Source("rpm", CurrentBuild.key)}
                        ELSE opened
           /\ IF r.err # NoError
              THEN Raise(r.err) /\ UNCHANGED items
              ELSE /\ items' = items \o r.items
                   /\ pc' = "modules"
                   /\ UNCHANGED task_err
    /\ trace' = Append(trace, Call("rpms", CurrentBuild.key))
    /\ UNCHANGED <<cfgVars, archVars, pipeVars, raw, koji, build_idx, erratum, container_pos,
                   pending_exc, result, warnings, released>>

\* line 283: _module_push_items_from_build.  The with block of lines 300-312
\* acquires the koji source and releases it when the block is left, and the
\* check of lines 315-320 comes after it.
CallModulePushItemsFromBuild ==
    /\ pc = "modules"
    /\ LET m == ModulePushItemsFromBuild(Cfg, Origin, CurrentBuild.key, CurrentBuild.val, koji)
           src == Source("module", CurrentBuild.key)
       IN  /\ opened' = IF koji_source_url THEN opened \cup {src} ELSE opened
           /\ released' = IF koji_source_url THEN released \cup {src} ELSE released
           /\ IF m.err # NoError
              THEN Raise(m.err) /\ UNCHANGED <<items, build_idx>>
              ELSE /\ items' = items \o m.items
                   /\ UNCHANGED task_err
                   /\ IF build_idx < Len(raw.advisory_cdn_file_list)
                      THEN pc' = "rpms" /\ build_idx' = build_idx + 1
                      ELSE pc' = "erratum_dest" /\ UNCHANGED build_idx
    /\ trace' = Append(trace, Call("modules", CurrentBuild.key))
    /\ UNCHANGED <<cfgVars, archVars, pipeVars, raw, koji, erratum, container_pos, pending_exc,
                   result, warnings>>

\* lines 161-165
SetErratumDest ==
    /\ pc = "erratum_dest"
    /\ erratum' = ErratumWithDest(erratum, items)
    /\ pc' = "ftp_paths"
    /\ trace' = Append(trace, Call("erratum_dest", ""))
    /\ UNCHANGED <<cfgVars, archVars, pipeVars, raw, koji, build_idx, items, container_pos,
                   pending_exc, task_err, result, warnings, opened, released>>

\* line 168: _add_ftp_paths
CallAddFtpPaths ==
    /\ pc = "ftp_paths"
    /\ LET f == AddFtpPaths(items, raw)
       IN  /\ warnings' = warnings \o f.warnings
           /\ IF f.err # NoError
              THEN Raise(f.err) /\ UNCHANGED items
              ELSE /\ items' = f.items
                   /\ pc' = "containers"
                   /\ UNCHANGED task_err
    /\ trace' = Append(trace, Call("ftp_paths", ""))
    /\ UNCHANGED <<cfgVars, archVars, pipeVars, raw, koji, build_idx, erratum, container_pos,
                   pending_exc, result, opened, released>>

ContainerYielded ==
    KojiContainerItems(koji, DictKeys(raw.advisory_cdn_docker_file_list))

\* lines 177-205: no container builds, or the koji source is acquired.
EnterContainerManifests ==
    /\ pc = "containers"
    /\ trace' = Append(trace, Call("containers", ""))
    /\ IF raw.advisory_cdn_docker_file_list = <<>>
       THEN pc' = "return" /\ UNCHANGED <<task_err, opened, container_pos>>
       ELSE IF ~koji_source_url
       THEN Raise(ValueError("no_koji_source", <<>>)) /\ UNCHANGED <<opened, container_pos>>
       ELSE /\ opened' = opened \cup {Source("container", "")}
            /\ container_pos' = 1
            /\ pc' = "container_loop"
            /\ UNCHANGED task_err
    /\ UNCHANGED <<cfgVars, archVars, pipeVars, raw, koji, build_idx, erratum, items, pending_exc,
                   result, warnings, released>>

\* lines 207-225: one item of the koji source.
ContainerLoopStep ==
    /\ pc = "container_loop"
    /\ container_pos <= Len(ContainerYielded)
    /\ LET b == ContainerLoopBody(legacy_container_repos, Origin,
                                  raw.advisory_cdn_docker_file_list,
                                  ContainerYielded[container_pos])
       IN  IF b.err # NoError
           THEN /\ pending_exc' = b.err
                /\ pc' = "container_exit"
                /\ UNCHANGED <<items, container_pos>>
           ELSE /\ items' = IF b.keep THEN Append(items, b.item) ELSE items
                /\ container_pos' = container_pos + 1
                /\ UNCHANGED <<pc, pending_exc>>
    /\ trace' = Append(trace, Call("container_item", ContainerYielded[container_pos].kind))
    /\ UNCHANGED <<cfgVars, archVars, pipeVars, raw, koji, build_idx, erratum, task_err, result,
                   warnings, opened, released>>

\* The loop is over.
ContainerLoopEnd ==
    /\ pc = "container_loop"
    /\ container_pos > Len(ContainerYielded)
    /\ pc' = "container_exit"
    /\ UNCHANGED <<cfgVars, archVars, pipeVars, raw, koji, build_idx, erratum, items, container_pos,
                   pending_exc, task_err, result, warnings, opened, released, trace>>

\* The with block of line 201 is left, by its end or by an exception: the
\* koji source is released.
ExitContainerManifests ==
    /\ pc = "container_exit"
    /\ released' = released \cup {Source("container", "")}
    /\ IF pending_exc # NoError
       THEN Raise(pending_exc)
       ELSE pc' = "return" /\ UNCHANGED task_err
    /\ UNCHANGED <<cfgVars, archVars, pipeVars, raw, koji, build_idx, erratum, items, container_pos,
                   pending_exc, result, warnings, opened, trace>>

\* line 174.  items holds the RPM and module items followed by the container
\* items appended to them by line 170.
Return ==
    /\ pc = "return"
    /\ result' = <<erratum>> \o items
    /\ pc' = "returned"
    /\ trace' = Append(trace, Call("return", ""))
    /\ UNCHANGED <<cfgVars, archVars, pipeVars, raw, koji, build_idx, erratum, items, container_pos,
                   pending_exc, task_err, warnings, opened, released>>

ReconNext ==
    \/ FromData
    \/ CallRpmPushItemsFromBuild
    \/ CallModulePushItemsFromBuild
    \/ SetErratumDest
    \/ CallAddFtpPaths
    \/ EnterContainerManifests
    \/ ContainerLoopStep
    \/ ContainerLoopEnd
    \/ ExitContainerManifests
    \/ Return

ArchInit ==
    /\ ReconIdle
    /\ PipeIdle
    /\ rpm_filter_arch \in ArchFilters
    /\ legacy_container_repos = FALSE
    /\ koji_source_url = TRUE
    /\ rpm_filenames \in FileLists
    /\ filtered = <<>>
    /\ archPc = "call"

CallFilterRpmsByArch ==
    /\ archPc = "call"
    /\ filtered' = FilterRpmsByArch(rpm_filter_arch, rpm_filenames)
    /\ archPc' = "returned"
    /\ UNCHANGED <<cfgVars, rpm_filenames, reconVars, pipeVars>>

ArchNext == CallFilterRpmsByArch

(***************************************************************************)
(* Spec: __iter__ and __exit__                                             *)
(***************************************************************************)
\* The state after __init__ (and __enter__): nothing fetched, the executors
\* running.
Init ==
    /\ ArchIdle
    /\ ReconIdle
    /\ rpm_filter_arch = NoArchFilter
    /\ legacy_container_repos = FALSE
    /\ koji_source_url = TRUE
    /\ threads \in 1..MaxThreads
    /\ advisory \in {a \in [AdvisoryIds -> UNION {AdvisoryPayloads(AdvisoryNames[i]) :
                                                    i \in AdvisoryIds}] :
                        \A i \in AdvisoryIds : a[i] \in AdvisoryPayloads(AdvisoryNames[i])}
    /\ iter_pc = "not_started"
    /\ raw_fs = [i \in AdvisoryIds |-> "none"]
    /\ fetched = {}
    /\ push_items_fs = <<>>
    /\ task = [i \in AdvisoryIds |-> "none"]
    /\ completion_order = <<>>
    /\ consumed = <<>>
    /\ batch_pos = 0
    /\ yielded = <<>>
    /\ raised = NoError
    /\ elapsed = 0
    /\ idle = 0
    /\ pools = [client |-> "running", executor |-> "running", koji_executor |-> "running"]
    /\ scope = "entered"

\* What the push items future of an advisory ends with: the return value or
\* the exception of _push_items_from_raw.
TaskResult(i) == PushItemsFromRaw(Cfg, advisory[i].raw, advisory[i].koji)

TimeoutError == [what |-> "Timeout", about |-> <<>>]
FetchError(i) == [what |-> "fetch_failed", about |-> <<AdvisoryNames[i]>>]

Finished(fs, i) == fs[i] \in {"done", "failed"}

\* The generator is waiting for a future and none it has not seen is finished.
BlockedInFetchLoop ==
    /\ iter_pc = "fetch_loop"
    /\ fetched # AdvisoryIds
    /\ ~\E i \in AdvisoryIds \ fetched : Finished(raw_fs, i)

BlockedInYieldLoop ==
    /\ iter_pc = "yield_loop"
    /\ batch_pos = 0
    /\ Len(consumed) < Len(push_items_fs)
    /\ Len(consumed) = Len(completion_order)

Blocked == BlockedInFetchLoop \/ BlockedInYieldLoop

\* line 522: the first next() runs the generator to its first wait.
StartIter ==
    /\ iter_pc = "not_started"
    /\ scope = "entered"
    /\ raw_fs' = [i \in AdvisoryIds |-> "pending"]
    /\ iter_pc' = "fetch_loop"
    /\ elapsed' = 0
    /\ idle' = 0
    /\ UNCHANGED <<cfgVars, archVars, reconVars, threads, advisory, fetched,
                   push_items_fs, task, completion_order, consumed, batch_pos,
                   yielded, raised, pools, scope>>

\* A fetch future of the client finishes, with the payload or an error.
FetchCompletes ==
    \E i \in AdvisoryIds, outcome \in {"done", "failed"} :
        /\ raw_fs[i] = "pending"
        /\ raw_fs' = [raw_fs EXCEPT ![i] = outcome]
        /\ idle' = 0
        /\ UNCHANGED <<cfgVars, archVars, reconVars, threads, advisory, iter_pc, fetched,
                       push_items_fs, task, completion_order, consumed, batch_pos,
                       yielded, raised, elapsed, pools, scope>>

\* futures.as_completed(raw_fs, timeout=self._timeout) of line 526 fixes its
\* deadline when it is called; the time waited is never set back.
FetchTimeoutDue == elapsed >= Timeout

\* The loop going on past a failed fetch: nothing raised, nothing submitted.
FetchLoopStepSkipsFailed ==
    \E i \in AdvisoryIds \ fetched :
        /\ iter_pc = "fetch_loop"
        /\ scope = "entered"
        /\ Finished(raw_fs, i)
        /\ fetched' = fetched \cup {i}
        /\ IF raw_fs[i] = "failed"
           THEN UNCHANGED <<push_items_fs, task>>
           ELSE /\ push_items_fs' = Append(push_items_fs, i)
                /\ task' = [task EXCEPT ![i] = "queued"]
        /\ UNCHANGED <<cfgVars, archVars, reconVars, threads, advisory, raw_fs, iter_pc,
                       raised, completion_order, consumed, batch_pos, yielded, elapsed,
                       idle, pools, scope>>

\* lines 526-529, one pass of the loop: f.result() raises what the fetch
\* raised, or the reconciliation is submitted.
FetchLoopStep ==
    \E i \in AdvisoryIds \ fetched :
        /\ iter_pc = "fetch_loop"
        /\ scope = "entered"
        /\ Finished(raw_fs, i)
        /\ fetched' = fetched \cup {i}
        /\ IF raw_fs[i] = "failed"
           THEN /\ iter_pc' = "raised"
                /\ raised' = FetchError(i)
                /\ UNCHANGED <<push_items_fs, task>>
           ELSE /\ push_items_fs' = Append(push_items_fs, i)
                /\ task' = [task EXCEPT ![i] = "queued"]
                /\ UNCHANGED <<iter_pc, raised>>
        /\ UNCHANGED <<cfgVars, archVars, reconVars, threads, advisory, raw_fs,
                       completion_order, consumed, batch_pos, yielded, elapsed, idle,
                       pools, scope>>

\* as_completed raises TimeoutError.
FetchTimeout ==
    /\ BlockedInFetchLoop
    /\ scope = "entered"
    /\ FetchTimeoutDue
    /\ iter_pc' = "raised"
    /\ raised' = TimeoutError
    /\ UNCHANGED <<cfgVars, archVars, reconVars, threads, advisory, raw_fs, fetched,
                   push_items_fs, task, completion_order, consumed, batch_pos, yielded,
                   elapsed, idle, pools, scope>>

\* lines 531-533: every fetch was seen; completed_fs starts with a full budget.
StartYieldLoop ==
    /\ iter_pc = "fetch_loop"
    /\ scope = "entered"
    /\ fetched = AdvisoryIds
    /\ iter_pc' = "yield_loop"
    /\ elapsed' = 0
    /\ UNCHANGED <<cfgVars, archVars, reconVars, threads, advisory, raw_fs, fetched,
                   push_items_fs, task, completion_order, consumed, batch_pos, yielded,
                   raised, idle, pools, scope>>

Running == {i \in AdvisoryIds : task[i] = "running"}

\* A worker of self._executor takes the oldest queued call.
TaskStarts ==
    \E k \in DOMAIN push_items_fs :
        /\ pools.executor = "running"
        /\ Cardinality(Running) < threads
        /\ task[push_items_fs[k]] = "queued"
        /\ \A j \in 1..(k - 1) : task[push_items_fs[j]] # "queued"
        /\ task' = [task EXCEPT ![push_items_fs[k]] = "running"]
        /\ UNCHANGED <<cfgVars, archVars, reconVars, threads, advisory, iter_pc, raw_fs,
                       fetched, push_items_fs, completion_order, consumed, batch_pos,
                       yielded, raised, elapsed, idle, pools, scope>>

\* _push_items_from_raw returns or raises in its worker.
TaskCompletes ==
    \E i \in Running :
        /\ task' = [task EXCEPT ![i] = IF TaskResult(i).err = NoError THEN "done"
                                       ELSE "failed"]
        /\ completion_order' = Append(completion_order, i)
        /\ idle' = 0
        /\ UNCHANGED <<cfgVars, archVars, reconVars, threads, advisory, iter_pc, raw_fs,
                       fetched, push_items_fs, consumed, batch_pos, yielded, raised,
                       elapsed, pools, scope>>

\* as_completed_with_timeout_reset (pushsource helpers): the futures as they
\* finish, the timeout starting anew at each one it yields.
NextCompletedFuture == completion_order[Len(consumed) + 1]

\* The failed future is passed over and the loop goes on.
ResultOrSkip(i) ==
    /\ batch_pos' = IF task[i] = "failed" THEN 0 ELSE 1
    /\ UNCHANGED <<iter_pc, raised>>

\* line 535: f.result() returns the batch, or raises what the task raised.
Result(i) ==
    IF task[i] = "failed"
    THEN /\ iter_pc' = "raised"
         /\ raised' = TaskResult(i).err
         /\ UNCHANGED batch_pos
    ELSE /\ batch_pos' = 1
         /\ UNCHANGED <<iter_pc, raised>>

\* line 534: completed_fs yields the next finished future.
NextCompleted ==
    /\ iter_pc = "yield_loop"
    /\ scope = "entered"
    /\ batch_pos = 0
    /\ Len(consumed) < Len(completion_order)
    /\ consumed' = Append(consumed, NextCompletedFuture)
    /\ elapsed' = 0
    /\ Result(NextCompletedFuture)
    /\ UNCHANGED <<cfgVars, archVars, reconVars, threads, advisory, raw_fs, fetched,
                   push_items_fs, task, completion_order, yielded, idle, pools, scope>>

CurrentBatch == TaskResult(consumed[Len(consumed)]).items

\* line 536: yield pushitem
YieldItem ==
    /\ iter_pc = "yield_loop"
    /\ scope = "entered"
    /\ batch_pos >= 1
    /\ yielded' = Append(yielded, CurrentBatch[batch_pos])
    /\ batch_pos' = IF batch_pos < Len(CurrentBatch) THEN batch_pos + 1 ELSE 0
    /\ UNCHANGED <<cfgVars, archVars, reconVars, threads, advisory, iter_pc, raw_fs,
                   fetched, push_items_fs, task, completion_order, consumed, raised,
                   elapsed, idle, pools, scope>>

\* completed_fs is exhausted: __iter__ returns.
IterExhausted ==
    /\ iter_pc = "yield_loop"
    /\ scope = "entered"
    /\ batch_pos = 0
    /\ Len(consumed) = Len(push_items_fs)
    /\ iter_pc' = "exhausted"
    /\ UNCHANGED <<cfgVars, archVars, reconVars, threads, advisory, raw_fs, fetched,
                   push_items_fs, task, completion_order, consumed, batch_pos, yielded,
                   raised, elapsed, idle, pools, scope>>

\* completed_fs raises TimeoutError.
YieldTimeout ==
    /\ BlockedInYieldLoop
    /\ scope = "entered"
    /\ elapsed >= Timeout
    /\ iter_pc' = "raised"
    /\ raised' = TimeoutError
    /\ UNCHANGED <<cfgVars, archVars, reconVars, threads, advisory, raw_fs, fetched,
                   push_items_fs, task, completion_order, consumed, batch_pos, yielded,
                   elapsed, idle, pools, scope>>

\* Time passes while the generator waits.
Tick ==
    /\ Blocked
    /\ scope = "entered"
    /\ elapsed < Timeout
    /\ elapsed' = elapsed + 1
    /\ idle' = IF idle < Timeout THEN idle + 1 ELSE idle
    /\ UNCHANGED <<cfgVars, archVars, reconVars, threads, advisory, iter_pc, raw_fs,
                   fetched, push_items_fs, task, completion_order, consumed, batch_pos,
                   yielded, raised, pools, scope>>

\* The generator is not running: not started, suspended at the yield of line
\* 536, or over.
Suspended ==
    \/ iter_pc \in {"not_started", "exhausted", "raised"}
    \/ iter_pc = "yield_loop" /\ yielded # <<>> /\ ~BlockedInYieldLoop

\* shutdown of an executor made with_cancel_on_shutdown: the futures not yet
\* started are cancelled.
CancelQueued(fs) == [i \in DOMAIN fs |-> IF fs[i] \in {"queued", "pending"}
                                        THEN "cancelled" ELSE fs[i]]

\* The queued futures are left as they are.
ShutdownExecutorsNoCancel ==
    /\ scope = "entered"
    /\ Suspended
    /\ scope' = "exiting"
    /\ pools' = [pools EXCEPT !.client = "shutdown"]
    /\ UNCHANGED <<cfgVars, archVars, reconVars, threads, advisory, iter_pc,
                   fetched, push_items_fs, completion_order, consumed, batch_pos,
                   yielded, raised, elapsed, idle, raw_fs, task>>

\* lines 108-110: __exit__ is entered, as the with block of the caller is
\* left: the client is shut down, and the executor cancels what it has queued
\* and starts to wait for its workers.
ShutdownExecutors ==
    /\ scope = "entered"
    /\ Suspended
    /\ scope' = "exiting"
    /\ pools' = [pools EXCEPT !.client = "shutdown"]
    /\ raw_fs' = CancelQueued(raw_fs)
    /\ task' = CancelQueued(task)
    /\ UNCHANGED <<cfgVars, archVars, reconVars, threads, advisory, iter_pc,
                   fetched, push_items_fs, completion_order, consumed, batch_pos,
                   yielded, raised, elapsed, idle>>

\* lines 110-111: the workers of the executor are done, shutdown(True)
\* returns, the koji executor is shut down and __exit__ returns.
Exit ==
    /\ scope = "exiting"
    /\ Running = {}
    /\ pools' = [pools EXCEPT !.executor = "shutdown", !.koji_executor = "shutdown"]
    /\ scope' = "exited"
    /\ UNCHANGED <<cfgVars, archVars, reconVars, threads, advisory, iter_pc, raw_fs,
                   fetched, push_items_fs, task, completion_order, consumed, batch_pos,
                   yielded, raised, elapsed, idle>>

Next ==
    \/ StartIter
    \/ FetchCompletes
    \/ FetchLoopStep
    \/ FetchTimeout
    \/ StartYieldLoop
    \/ TaskStarts
    \/ TaskCompletes
    \/ NextCompleted
    \/ YieldItem
    \/ IterExhausted
    \/ YieldTimeout
    \/ Tick
    \/ ShutdownExecutors
    \/ Exit

vars == <<cfgVars, archVars, reconVars, pipeVars>>

Spec == Init /\ [][Next]_vars

SpecArch == ArchInit /\ [][ArchNext]_vars

SpecRecon == ReconInit /\ [][ReconNext]_vars

\* The stepped task returns what the function computes.
ReconAgrees ==
    LET whole == PushItemsFromRaw(Cfg, raw, koji)
    IN  /\ pc = "returned" => whole.err = NoError /\ whole.items = result
        /\ pc = "failed" => whole.err = task_err

(***************************************************************************)
(* C10                                                                     *)
(***************************************************************************)
\* The claim's own reading of a file name, by positions and not by split:
\* the name ends in the two tokens ".", "rpm", holds another dot before
\* them, and the tokens between the last two dots are the architecture.
DotPositions(f) == {i \in DOMAIN f : f[i] = DOT}

LastDotBefore(f, k) ==
    CHOOSE i \in DotPositions(f) : i < k /\ \A j \in DotPositions(f) : j < k => j <= i

EndsInDotRpm(f) == Len(f) >= 2 /\ f[Len(f)] = "rpm" /\ f[Len(f) - 1] = DOT

HasThreeComponents(f) == Cardinality(DotPositions(f)) >= 2

ArchComponent(f) ==
    SubSeq(f, LastDotBefore(f, Len(f) - 1) + 1, Len(f) - 2)

Passes(f, arches) ==
    /\ HasThreeComponents(f)
    /\ EndsInDotRpm(f)
    /\ \E i \in DOMAIN arches : ArchStr(ArchComponent(f)) = ArchStr(arches[i])

\* C10: the filter returns, in input order, every name when no filter is
\* configured, and otherwise exactly the names with at least 3 components
\* that end in ".rpm" and whose normalised architecture component is a
\* normalised configured architecture; a name that does not end in ".rpm" or
\* has fewer than 3 components is never returned under a configured filter.
C10_ArchFilter ==
    archPc = "returned" =>
        /\ rpm_filter_arch.is_none => filtered = rpm_filenames
        /\ ~rpm_filter_arch.is_none =>
            /\ filtered = SelectSeq(rpm_filenames,
                                    LAMBDA f : Passes(f, rpm_filter_arch.arches))
            /\ \A i \in DOMAIN filtered :
                    EndsInDotRpm(filtered[i]) /\ HasThreeComponents(filtered[i])

\* A list of two names of which the filter, configured with an architecture
\* in another case than the file name's, keeps one and drops the other.
C10_Witness ==
    /\ archPc = "returned"
    /\ ~rpm_filter_arch.is_none
    /\ Len(rpm_filenames) = 2
    /\ Len(filtered) = 1
    /\ \E i \in DOMAIN rpm_filter_arch.arches :
            rpm_filter_arch.arches[i] # ArchComponent(filtered[1])

(***************************************************************************)
(* C1                                                                      *)
(***************************************************************************)
\* C1: iterating the source fails with Timeout only when a span of the full
\* configured length has passed in which no future finished, neither a fetch
\* nor a reconciliation (the budget starts anew at every completion).
C1_ProgressTimeout ==
    [][raised # TimeoutError /\ raised' = TimeoutError => idle >= Timeout]_vars

(***************************************************************************)
(* C2                                                                      *)
(***************************************************************************)
IterationOver == iter_pc \in {"exhausted", "raised"}

PoolsShutDown ==
    /\ pools.executor = "shutdown"
    /\ pools.koji_executor = "shutdown"
    /\ \A i \in AdvisoryIds : task[i] \notin {"queued", "running"}

\* C2 as claimed: whenever iteration is over (exhausted, failed or timed
\* out), both pools are shut down and nothing they hold is left to start.
C2_IterationEndShutsPools ==
    IterationOver => PoolsShutDown

\* C2 as amended: once __exit__ has returned, both pools are shut down and
\* nothing they hold is left to start or to finish.
C2_ExitShutsPools ==
    scope = "exited" => PoolsShutDown

\* __exit__ returned after a Timeout, with a reconciliation that was still
\* queued cancelled and another one finished by a worker.
C2_Witness ==
    /\ scope = "exited"
    /\ raised = TimeoutError
    /\ \E i \in AdvisoryIds : task[i] = "cancelled"
    /\ \E i \in AdvisoryIds : task[i] \in {"done", "failed"}

(***************************************************************************)
(* C3                                                                      *)
(***************************************************************************)
\* The advisory a yielded push item belongs to.
ItemAdvisory(item) == IF item.kind = "Erratum" THEN item.name[1] ELSE item.origin

BatchLen(i) == Len(PushItemsFromRaw(Cfg, advisory[i].raw, advisory[i].koji).items)

RECURSIVE SumBatchLen(_)
SumBatchLen(ids) ==
    IF ids = <<>> THEN 0 ELSE BatchLen(Head(ids)) + SumBatchLen(Tail(ids))

\* C3: a failed reconciliation the producer comes to is raised to the caller
\* at once and is the last future it looks at; nothing is yielded after it,
\* nothing of a failed advisory is ever yielded, and iteration never ends
\* normally with a failed advisory left out.
C3_FailFast ==
    /\ iter_pc = "exhausted" => \A i \in AdvisoryIds : task[i] # "failed"
    /\ \A k \in DOMAIN consumed :
          task[consumed[k]] = "failed" =>
              /\ k = Len(consumed)
              /\ iter_pc = "raised"
              /\ raised = PushItemsFromRaw(Cfg, advisory[consumed[k]].raw,
                                           advisory[consumed[k]].koji).err
              /\ ErrorKind(raised) \in {"ConfigError", "MissingArtifact"}
              /\ Len(yielded) = SumBatchLen(SubSeq(consumed, 1, k - 1))
    /\ \A k \in DOMAIN yielded, i \in AdvisoryIds :
          ItemAdvisory(yielded[k]) = AdvisoryNames[i] => task[i] # "failed"

\* A failure was raised after the batch of another advisory had been yielded.
C3_Witness ==
    /\ iter_pc = "raised"
    /\ ErrorKind(raised) = "MissingArtifact"
    /\ Len(consumed) = 2
    /\ yielded # <<>>

(***************************************************************************)
(* C4                                                                      *)
(***************************************************************************)
RpmModuleKinds == {"Rpm", "ModuleMd", "ModuleMdSource"}
ContainerKinds == {"ContainerImage", "OperatorManifest"}

ItemKey(item) == <<item.kind, item.build>> \o item.name \o item.src

Keys(its) == [j \in DOMAIN its |-> ItemKey(its[j])]

\* What the build resolver yields for an advisory, in the order of the calls:
\* per build of the manifest its RPMs and then its modules.
RECURSIVE ResolverRpmYield(_, _)
ResolverRpmYield(file_list, k) ==
    IF file_list = <<>> THEN <<>>
    ELSE [j \in DOMAIN Head(file_list).val.rpms |->
              <<"Rpm", DictGet(k.rpms, Head(file_list).val.rpms[j].key,
                               [build |-> ""]).build>>
                 \o Head(file_list).val.rpms[j].key]
            \o Keys(DictGet(k.modules, Head(file_list).key, <<>>))
            \o ResolverRpmYield(Tail(file_list), k)

\* A batch is the advisory, then RPM and module items, then container items,
\* each group in the order the resolver yields.
BatchShape(b, adv) ==
    /\ Len(b) >= 1
    /\ b[1].kind = "Erratum"
    /\ b[1].name = <<adv.raw.advisory_cdn_metadata.name>>
    /\ \E k \in 1..Len(b) :
          LET rpm_group == SubSeq(b, 2, k)
              container_group == SubSeq(b, k + 1, Len(b))
          IN  /\ \A j \in DOMAIN rpm_group : rpm_group[j].kind \in RpmModuleKinds
              /\ \A j \in DOMAIN container_group :
                    container_group[j].kind \in ContainerKinds
              /\ Keys(rpm_group) =
                    SelectSeq(ResolverRpmYield(adv.raw.advisory_cdn_file_list, adv.koji),
                              LAMBDA key : key \in Range(Keys(rpm_group)))
              /\ Keys(container_group) =
                    SelectSeq(Keys(adv.koji.containers),
                              LAMBDA key : key \in Range(Keys(container_group)))

BatchOf(i) == PushItemsFromRaw(Cfg, advisory[i].raw, advisory[i].koji).items

\* What was yielded of the k-th future the producer looked at.
YieldedOf(k) ==
    IF k < Len(consumed) \/ batch_pos = 0
    THEN BatchOf(consumed[k])
    ELSE SubSeq(BatchOf(consumed[k]), 1, batch_pos - 1)

\* C4: what was yielded is the batches of the reconciliations in the order
\* they finished, each whole (the one being yielded, so far) and contiguous,
\* and each batch is the advisory, its RPM and module items, its container
\* items, the groups in the resolver's order.
C4_BatchOrder ==
    /\ consumed = SubSeq(completion_order, 1, Len(consumed))
    /\ yielded = FlattenSeq([k \in DOMAIN consumed |-> YieldedOf(k)])
    /\ \A k \in DOMAIN consumed :
          task[consumed[k]] = "done" => BatchShape(BatchOf(consumed[k]), advisory[consumed[k]])

\* Two whole batches were yielded, the one submitted second first, one of
\* them with RPM, operator manifest and container image items.
C4_Witness ==
    /\ iter_pc = "exhausted"
    /\ Len(consumed) = 2
    /\ consumed # push_items_fs
    /\ \E k \in DOMAIN yielded : yielded[k].kind = "ContainerImage"
    /\ \E k \in DOMAIN yielded : yielded[k].kind = "Rpm"

(***************************************************************************)
(* C5                                                                      *)
(***************************************************************************)
TaskFinished == pc \in {"returned", "failed"}

\* C5: when a reconciliation task has finished, by returning or by an error,
\* every koji source it acquired (for RPMs, for modules, for container
\* builds) has been released.
C5_SourcesReleased ==
    TaskFinished => opened \subseteq released

(***************************************************************************)
(* C6                                                                      *)
(***************************************************************************)
Ran(op) == \E k \in DOMAIN trace : trace[k].op = op

\* The FTP paths of the build declare module paths.
NeedsModulePaths(nvr) ==
    \E i \in DOMAIN raw.ftp_paths :
        raw.ftp_paths[i].key = nvr /\ raw.ftp_paths[i].val.modules # <<>>

\* The resolver holds a module source of the build and the build is in the
\* manifest, so that its modules are asked for.
SourceResolved(nvr) ==
    /\ \E i \in DOMAIN raw.advisory_cdn_file_list : raw.advisory_cdn_file_list[i].key = nvr
    /\ \E i \in DOMAIN koji.modules :
          /\ koji.modules[i].key = nvr
          /\ \E j \in DOMAIN koji.modules[i].val :
                koji.modules[i].val[j].kind = "ModuleMdSource"

ManifestDeclaresModules(nvr) ==
    \E i \in DOMAIN raw.advisory_cdn_file_list :
        /\ raw.advisory_cdn_file_list[i].key = nvr
        /\ raw.advisory_cdn_file_list[i].val.modules # <<>>

NeedWithoutHave == {nvr \in Range(Builds) : NeedsModulePaths(nvr) /\ ~SourceResolved(nvr)}

WarnedBuilds == {nvr \in NeedWithoutHave : ~ManifestDeclaresModules(nvr)}
FatalBuilds == {nvr \in NeedWithoutHave : ManifestDeclaresModules(nvr)}

\* C6: once the FTP-path merge has run, it has failed exactly when a build
\* needs module paths, has no module source and has modules declared in the
\* manifest, with a MissingArtifact error naming those builds; the builds
\* that need module paths, have no module source and have no modules in the
\* manifest are warned about and nothing more.
C6_MergeMissingModules ==
    Ran("ftp_paths") =>
        /\ FatalBuilds # {} <=>
              /\ pc = "failed"
              /\ task_err = ValueError("missing_modulemd_sources", Sorted(FatalBuilds))
        /\ FatalBuilds # {} => ErrorKind(task_err) = "MissingArtifact"
        /\ FatalBuilds = {} => trace[Len(trace)].op # "ftp_paths" \/ pc = "containers"
        /\ warnings = IF WarnedBuilds # {} THEN <<Sorted(WarnedBuilds)>> ELSE <<>>

\* A reconciliation returned its items after the merge warned about a build.
C6_Witness ==
    /\ pc = "returned"
    /\ WarnedBuilds # {}
    /\ warnings # <<>>
    /\ Len(result) > 1

(***************************************************************************)
(* C7                                                                      *)
(***************************************************************************)
DeclaredModules(nvr) ==
    UNION { Range(DictKeys(raw.advisory_cdn_file_list[i].val.modules)) :
                i \in {j \in DOMAIN raw.advisory_cdn_file_list :
                            raw.advisory_cdn_file_list[j].key = nvr} }

ResolvedBasenames(nvr) ==
    UNION { {Basename(koji.modules[i].val[j].src) : j \in DOMAIN koji.modules[i].val} :
                i \in {j \in DOMAIN koji.modules : koji.modules[j].key = nvr} }

UnmatchedModules(nvr) == DeclaredModules(nvr) \ ResolvedBasenames(nvr)

MissingModulesError(nvr) ==
    ValueError("missing_modules", <<nvr>> \o Sorted({n[1] : n \in UnmatchedModules(nvr)}))

\* C7 as amended: once the modules of a build were reconciled, the task has
\* failed there and then, with a MissingArtifact error naming the build and
\* the unmatched names, exactly when a name the manifest declares for the
\* build is the base name of no artifact of the resolver; the FTP paths play
\* no part, and the sentinel is named only when the manifest declares it.
C7_MissingModules ==
    \A b \in DOMAIN Builds :
        LET nvr == Builds[b]
        IN  Ran("modules") /\ (\E k \in DOMAIN trace : trace[k] = Call("modules", nvr)) =>
                IF UnmatchedModules(nvr) # {}
                THEN /\ pc = "failed"
                     /\ trace[Len(trace)] = Call("modules", nvr)
                     /\ task_err = MissingModulesError(nvr)
                     /\ ErrorKind(task_err) = "MissingArtifact"
                     /\ (SENTINEL[1] \in Range(task_err.about) => SENTINEL \in DeclaredModules(nvr))
                ELSE ~(task_err.what = "missing_modules" /\ task_err.about[1] = nvr)

\* C7 as claimed: the same, and the sentinel is never named as missing.
C7_SentinelNeverMissing ==
    /\ C7_MissingModules
    /\ task_err.what = "missing_modules" => SENTINEL[1] \notin Range(task_err.about)

\* The modules of the second build failed after the first build passed, for
\* a build the FTP paths do not mention.
C7_Witness ==
    /\ pc = "failed"
    /\ trace[Len(trace)] = Call("modules", "b2")
    /\ UnmatchedModules("b2") # {}
    /\ \A i \in DOMAIN raw.ftp_paths : raw.ftp_paths[i].key # "b2"
    /\ task_err = MissingModulesError("b2")

(***************************************************************************)
(* C8                                                                      *)
(***************************************************************************)
\* The loop of the container step has just handled a container image.
ImageHandled ==
    /\ trace # <<>>
    /\ trace[Len(trace)] = Call("container_item", "ContainerImage")

\* The build of the image handled last.
HandledBuild ==
    IF pending_exc # NoError THEN ContainerYielded[container_pos].build
    ELSE ContainerYielded[container_pos - 1].build

\* The repositories of a container build in the namespace the flag selects.
SelectedRepos(build) ==
    LET entries == {i \in DOMAIN raw.advisory_cdn_docker_file_list :
                        raw.advisory_cdn_docker_file_list[i].key = build}
    IN  IF entries = {} THEN <<>>
        ELSE LET e == raw.advisory_cdn_docker_file_list[CHOOSE i \in entries : TRUE].val
             IN  IF legacy_container_repos THEN e.repos ELSE e.external_repos

DistinctSigningKeys(build) ==
    {SelectedRepos(build)[i].val.container_full_sig_key :
        i \in DOMAIN SelectedRepos(build)} \ {""}

DeclaresTags(build) ==
    \E i \in DOMAIN SelectedRepos(build) : SelectedRepos(build)[i].val.tags # <<>>

\* C8 as claimed: a container image of a build whose selected repositories
\* declare two or more distinct signing keys fails with ConfigError, whatever
\* the tags.
C8_MultipleKeysConfigError ==
    ImageHandled /\ Cardinality(DistinctSigningKeys(HandledBuild)) >= 2 =>
        ErrorKind(pending_exc) = "ConfigError"

\* C8 as amended: such an image fails with ConfigError when the selected
\* repositories declare at least one tag, and with MissingArtifact (no
\* repositories) when they declare none; the task fails with that error.
C8_MultipleKeys ==
    ImageHandled /\ Cardinality(DistinctSigningKeys(HandledBuild)) >= 2 =>
        /\ pc \in {"container_exit", "failed"}
        /\ pc = "failed" => task_err = pending_exc
        /\ ErrorKind(pending_exc) =
              IF DeclaresTags(HandledBuild) THEN "ConfigError" ELSE "MissingArtifact"

\* A task failed with ConfigError on an image of a build with two signing
\* keys and a tag, in the legacy namespace.
C8_Witness ==
    /\ ImageHandled
    /\ legacy_container_repos
    /\ Cardinality(DistinctSigningKeys(HandledBuild)) >= 2
    /\ DeclaresTags(HandledBuild)
    /\ pc = "failed"
    /\ ErrorKind(task_err) = "ConfigError"

(***************************************************************************)
(* C9                                                                      *)
(***************************************************************************)
\* The builds in the docker manifest whose image the resolver yields.
ImageBuilds ==
    {koji.containers[i].build :
        i \in {j \in DOMAIN koji.containers :
                  /\ koji.containers[j].kind = "ContainerImage"
                  /\ \E d \in DOMAIN raw.advisory_cdn_docker_file_list :
                        raw.advisory_cdn_docker_file_list[d].key = koji.containers[j].build}}

\* The module source of the build has a destination: one the manifest
\* declares for the sentinel, or a module path of the FTP paths.
SourceHasDest(nvr) ==
    \/ NeedsModulePaths(nvr)
    \/ \E i \in DOMAIN raw.advisory_cdn_file_list :
          /\ raw.advisory_cdn_file_list[i].key = nvr
          /\ \E m \in DOMAIN raw.advisory_cdn_file_list[i].val.modules :
                /\ raw.advisory_cdn_file_list[i].val.modules[m].key = SENTINEL
                /\ raw.advisory_cdn_file_list[i].val.modules[m].val # <<>>

SourceReturned(nvr) ==
    \E k \in DOMAIN result : result[k].kind = "ModuleMdSource" /\ result[k].build = nvr

\* C9 as amended: in what a successful reconciliation returns, every
\* container image and every module source has a destination; an image whose
\* repositories give no destination makes the task fail, and a module source
\* is returned exactly when it has a destination after the merge.
C9_ImagesAndSourcesHaveDest ==
    pc = "returned" =>
        /\ \A k \in DOMAIN result :
              result[k].kind \in {"ContainerImage", "ModuleMdSource"} => result[k].dest # <<>>
        /\ \A build \in ImageBuilds : DeclaresTags(build)
        /\ \A b \in DOMAIN Builds :
              SourceReturned(Builds[b]) <=>
                  SourceResolved(Builds[b]) /\ SourceHasDest(Builds[b])

\* C9 as claimed: the same, and no returned item of any variant is without
\* a destination.
C9_EveryItemHasDest ==
    /\ C9_ImagesAndSourcesHaveDest
    /\ pc = "returned" => \A k \in DOMAIN result : result[k].dest # <<>>

\* A reconciliation returned the module source of one build and dropped the
\* one of the other build.
C9_Witness ==
    /\ pc = "returned"
    /\ SourceReturned("b1")
    /\ SourceResolved("b2")
    /\ ~SourceReturned("b2")

(***************************************************************************)
(* C11                                                                     *)
(***************************************************************************)
\* The destinations the manifest declares for the RPMs that pass the arch
\* filter.
ManifestRpmDests ==
    UNION { UNION { Range(raw.advisory_cdn_file_list[i].val.rpms[j].val) :
                      j \in {r \in DOMAIN raw.advisory_cdn_file_list[i].val.rpms :
                                raw.advisory_cdn_file_list[i].val.rpms[r].key \in
                                    Range(FilterRpmsByArch(rpm_filter_arch,
                                            DictKeys(raw.advisory_cdn_file_list[i].val.rpms)))} } :
                i \in DOMAIN raw.advisory_cdn_file_list }

\* The destinations the manifest declares for the modules the resolver
\* returns.
ManifestModuleDests ==
    UNION { UNION { Range(raw.advisory_cdn_file_list[i].val.modules[m].val) :
                      m \in {n \in DOMAIN raw.advisory_cdn_file_list[i].val.modules :
                                raw.advisory_cdn_file_list[i].val.modules[n].key \in
                                    ResolvedBasenames(raw.advisory_cdn_file_list[i].key)} } :
                i \in DOMAIN raw.advisory_cdn_file_list }

PreMergeDests == ManifestRpmDests \cup ManifestModuleDests

MetadataDests == Range(raw.advisory_cdn_metadata.dest)

\* The paths of the FTP paths, of RPMs and of modules.
AltPaths ==
    UNION { Range(raw.ftp_paths[i].val.modules)
              \cup UNION { Range(raw.ftp_paths[i].val.rpms[j].val) :
                              j \in DOMAIN raw.ftp_paths[i].val.rpms } :
                i \in DOMAIN raw.ftp_paths }

\* C11 as claimed: in the batch returned, the advisory item's destinations
\* are the sorted union of the destinations its RPM and module items had
\* before the FTP paths were merged, and nothing else.
C11_ErratumDestIsItemsDest ==
    pc = "returned" =>
        /\ result[1].kind = "Erratum"
        /\ result[1].dest = Sorted(PreMergeDests)

\* C11 as amended: they are the sorted union of the destinations the
\* advisory item has from its metadata and of those its RPM and module items
\* had before the FTP paths were merged; an FTP path is among them only as
\* one of these.
C11_ErratumDest ==
    pc = "returned" =>
        /\ result[1].kind = "Erratum"
        /\ result[1].dest = Sorted(MetadataDests \cup PreMergeDests)
        /\ (Range(result[1].dest) \cap AltPaths) \subseteq (MetadataDests \cup PreMergeDests)

\* A batch was returned whose advisory has a destination of its own and one
\* of an RPM, the RPM item having got an FTP path that the advisory has not.
C11_Witness ==
    /\ pc = "returned"
    /\ MetadataDests # {}
    /\ ManifestRpmDests # {}
    /\ \E k \in DOMAIN result :
          /\ result[k].kind = "Rpm"
          /\ Range(result[k].dest) \cap AltPaths # {}
          /\ ~(Range(result[k].dest) \subseteq Range(result[1].dest))

(***************************************************************************)
(* C12                                                                     *)
(***************************************************************************)
\* The advisories whose reconciliation was submitted.
Submitted == Range(push_items_fs)

\* The error was raised by the first loop, of the fetches.
RaisedInFetchPhase ==
    \/ \E i \in AdvisoryIds : raised = FetchError(i)
    \/ raised = TimeoutError /\ fetched # AdvisoryIds

=============================================================================
